---- MODULE Spec2Model ----
(***************************************************************************)
(* EventEmitter (src/src/EventEmitter.ts) and EventFetch                   *)
(* (src/unnamed/part_001, second listing, lines 181-455) as a state        *)
(* machine.                                                                *)
(*                                                                         *)
(* One step of the model is one synchronous run of JavaScript: a public    *)
(* call up to its first await, the continuation of an emit() after an      *)
(* awaited handler settles, the continuation of an onFetch closure after   *)
(* the responder settles, or a setTimeout callback.                        *)
(*                                                                         *)
(* Arrays are JavaScript objects with identity.  An emit() iterates the    *)
(* array object it read from this._events[event] (or this._wildcard): on() *)
(* pushes into and sorts that object in place, off()/_offAll() replace the *)
(* property by a new array and leave the old object untouched.  A task     *)
(* therefore either still aliases the property (live) or holds the old,    *)
(* from then on immutable, array (arr).                                    *)
(***************************************************************************)
EXTENDS Integers, Sequences, FiniteSets, TLC

\* ------------------------------------------------------------------ bounds
MaxSubscriptions == 2  \* on() and onFetch() calls by the callers of an instance
MaxEmits == 2          \* emit() calls by the callers
MaxCalls == 2          \* Fetch() calls
MaxResponses == 2      \* response events the onFetch closures emit

\* --------------------------------------------------------------- constants
DefaultPriority == 10

Instances == {"A", "B"}
EventKeys == {"K1", "K2"}
Wildcard == "*"
RequestEvent == "EventFetch:Fetch:Request"
ResponseEvent == "EventFetch:Fetch:Response"
ApiKeys == {"X", "Y"}
Params == {"p1"}
\* what a responder may return: the falsy values undefined and false, and a
\* truthy payload
Results == {"undefined", "false", "r1"}

VARIABLES
    _events,                  \* per instance: event key -> listener array
    _wildcard,                \* per instance: wildcard listener array
    _indexCounter,            \* per instance
    _EventToResponseHandler,  \* per instance: requestId -> resolver closure
    calls,                    \* Fetch() invocations; a call's requestId is its position
    tasks,                    \* emit() invocations
    responders,               \* onFetch() closures
    unsubs,                   \* the functions on() has returned
    revoked                   \* history: see Revokes

vars == <<_events, _wildcard, _indexCounter, _EventToResponseHandler,
          calls, tasks, responders, unsubs, revoked>>

\* ----------------------------------------------------------------- values
NoHandler == [kind |-> "none", id |-> 0]
UserHandlers == {[kind |-> "user", id |-> n] : n \in 1..2}
ResponseListener == [kind |-> "response", id |-> 0]
ResponderHandler(n) == [kind |-> "onFetch", id |-> n]

NoEntry == [handler |-> NoHandler, once |-> FALSE, priority |-> 0, index |-> -1]

NoHeader == [success |-> TRUE, message |-> "", requestId |-> 0, apiKey |-> ""]
UserData == [data |-> "d", header |-> NoHeader,
             userInfo |-> [requesterId |-> "", remoteId |-> ""]]

_selfId(i) == i

\* {...data, eventTag: event}
WithTag(data, event) ==
    [data |-> data.data, header |-> data.header, userInfo |-> data.userInfo,
     eventTag |-> event]

\* promise states
Pending == [state |-> "pending"]
Fulfilled(v) == [state |-> "fulfilled", value |-> v]
Rejected(e) == [state |-> "rejected", reason |-> e]

\* resolve()/reject() on a promise: only the first call settles it
Settle(promise, settlement) ==
    IF promise.state = "pending" THEN settlement ELSE promise

\* ------------------------------------------------------------ EventEmitter
\* Compare with the priorities the wrong way round
CompareAscending(a, b) ==
    IF b.priority # a.priority THEN a.priority - b.priority
    ELSE a.index - b.index

\* the comparator of on()/_onAll(): negative iff a sorts before b
Compare(a, b) ==
    IF b.priority # a.priority THEN b.priority - a.priority
    ELSE a.index - b.index

RECURSIVE InsertSorted(_, _)
InsertSorted(sorted, e) ==
    IF sorted = <<>> THEN <<e>>
    ELSE IF Compare(e, sorted[Len(sorted)]) < 0
         THEN Append(InsertSorted(SubSeq(sorted, 1, Len(sorted) - 1), e),
                     sorted[Len(sorted)])
         ELSE Append(sorted, e)

\* a push that is not followed by a sort
SortListenersSkipped(arr) == arr

\* Array.prototype.sort with the comparator (a stable insertion sort)
RECURSIVE SortListeners(_)
SortListeners(arr) ==
    IF arr = <<>> THEN <<>>
    ELSE InsertSorted(SortListeners(SubSeq(arr, 1, Len(arr) - 1)), arr[Len(arr)])

\* FilterOut removing the first match only (indexOf and splice)
RECURSIVE FilterOutFirst(_, _)
FilterOutFirst(arr, handler) ==
    IF arr = <<>> THEN <<>>
    ELSE IF arr[1].handler # handler
         THEN <<arr[1]>> \o FilterOutFirst(Tail(arr), handler)
         ELSE Tail(arr)

\* handlers.filter((h) => h.handler !== handler)
RECURSIVE FilterOut(_, _)
FilterOut(arr, handler) ==
    IF arr = <<>> THEN <<>>
    ELSE IF arr[1].handler # handler
         THEN <<arr[1]>> \o FilterOut(Tail(arr), handler)
         ELSE FilterOut(Tail(arr), handler)

\* The whole mutable state as one record, so the synchronous code of a step
\* can be composed from the methods it calls.
State == [ev |-> _events, wc |-> _wildcard, ctr |-> _indexCounter,
          reg |-> _EventToResponseHandler, calls |-> calls, tasks |-> tasks,
          revoked |-> revoked]

Running(tk) == tk.phase \in {"key", "wild"}

\* the array object task tk iterates
TaskArr(s, tk) ==
    IF ~tk.live THEN tk.arr
    ELSE IF tk.phase = "key" THEN s.ev[tk.inst][tk.event]
    ELSE s.wc[tk.inst]

\* this._events[event] (event = Wildcard: this._wildcard) of instance i is
\* about to be replaced by a new array: the tasks iterating the old array keep it
Detach(s, i, event) ==
    [s EXCEPT !.tasks = [n \in DOMAIN s.tasks |->
        LET tk == s.tasks[n] IN
        IF /\ tk.live /\ tk.inst = i
           /\ \/ event = Wildcard /\ tk.phase = "wild"
              \/ event # Wildcard /\ tk.phase = "key" /\ tk.event = event
        THEN [tk EXCEPT !.live = FALSE, !.arr = TaskArr(s, tk)]
        ELSE tk]]

_offAll(s, i, handler) ==
    LET d == Detach(s, i, Wildcard) IN
    [d EXCEPT !.wc[i] = FilterOut(s.wc[i], handler)]

\* off(event, handler?); handler = NoHandler stands for a call without handler
off(s, i, event, handler) ==
    IF event = Wildcard THEN
        IF handler # NoHandler THEN _offAll(s, i, handler)
        ELSE [Detach(s, i, Wildcard) EXCEPT !.wc[i] = <<>>]
    ELSE IF event \in DOMAIN s.ev[i] THEN
        IF handler # NoHandler
        THEN [Detach(s, i, event) EXCEPT
                 !.ev[i] = [k \in DOMAIN s.ev[i] |->
                               IF k = event THEN FilterOut(s.ev[i][event], handler)
                               ELSE s.ev[i][k]]]
        ELSE [Detach(s, i, event) EXCEPT
                 !.ev[i] = [k \in DOMAIN s.ev[i] \ {event} |-> s.ev[i][k]]]
    ELSE s

_onAll(s, i, handler, once, priority, index) ==
    [s EXCEPT !.wc[i] =
        SortListeners(Append(s.wc[i],
            [handler |-> handler, once |-> once, priority |-> priority, index |-> index]))]

\* eventArray.forEach: push and sort, for every key of the set keys
RECURSIVE Subscribe(_, _, _, _)
Subscribe(s, i, keys, e) ==
    IF keys = {} THEN s
    ELSE LET k == CHOOSE x \in keys : TRUE
             old == IF k \in DOMAIN s.ev[i] THEN s.ev[i][k] ELSE <<>>
             s1 == [s EXCEPT !.ev[i] =
                       [x \in DOMAIN s.ev[i] \cup {k} |->
                           IF x = k THEN SortListeners(Append(old, e))
                           ELSE s.ev[i][x]]]
         IN Subscribe(s1, i, keys \ {k}, e)

\* on(events, handler, {once, priority}); events is {Wildcard} for "*", else the
\* set of the keys of eventArray
on(s, i, events, handler, once, priority) ==
    LET index == s.ctr[i]
        s1 == [s EXCEPT !.ctr[i] = index + 1]
    IN IF events = {Wildcard} THEN _onAll(s1, i, handler, once, priority, index)
       ELSE Subscribe(s1, i, events,
                [handler |-> handler, once |-> once, priority |-> priority, index |-> index])

\* the function on() returns, applied
RECURSIVE OffEach(_, _, _, _)
OffEach(s, i, keys, handler) ==
    IF keys = {} THEN s
    ELSE LET k == CHOOSE x \in keys : TRUE
         IN OffEach(off(s, i, k, handler), i, keys \ {k}, handler)

Unsubscribe(s, u) ==
    IF u.events = {Wildcard} THEN _offAll(s, u.inst, u.handler)
    ELSE OffEach(s, u.inst, u.events, u.handler)

\* -------------------------------------------------------------- EventFetch
\* Promise.race([Request, timeoutPromise]): which is "Request" or
\* "timeoutPromise", the promise of call c that resolve()/reject() is called on;
\* the race follows the first of the two to settle
PromiseRace(c, which, settlement) ==
    LET before == c[which]
        after == Settle(before, settlement)
    IN [c EXCEPT ![which] = after,
                 !.outcome = IF before.state = "pending" THEN Settle(@, after) ELSE @]

\* Resolver without the check of the replier
ResolverAnyReplier(s, i, c, v) ==
    IF v.header.requestId # c.requestId THEN s
    ELSE IF v.userInfo.requesterId # _selfId(i) THEN s
    ELSE [s EXCEPT
            !.reg[i] = [r \in DOMAIN s.reg[i] \ {c.requestId} |-> s.reg[i][r]],
            !.calls[c.requestId] =
                PromiseRace([@ EXCEPT !.resolves = @ + 1], "Request", Fulfilled(v))]

\* Resolver without eventClose()
ResolverLeftOpen(s, i, c, v) ==
    IF v.header.requestId # c.requestId THEN s
    ELSE IF v.userInfo.replayerId # c.remoteId THEN s
    ELSE IF v.userInfo.requesterId # _selfId(i) THEN s
    ELSE [s EXCEPT
            !.calls[c.requestId] =
                PromiseRace([@ EXCEPT !.resolves = @ + 1], "Request", Fulfilled(v))]

\* the resolver Fetch() stores under requestId; c holds what the closure captured
Resolver(s, i, c, v) ==
    IF v.header.requestId # c.requestId THEN s
    ELSE IF v.userInfo.replayerId # c.remoteId THEN s
    ELSE IF v.userInfo.requesterId # _selfId(i) THEN s
    ELSE [s EXCEPT
            \* eventClose()
            !.reg[i] = [r \in DOMAIN s.reg[i] \ {c.requestId} |-> s.reg[i][r]],
            \* resolve(v)
            !.calls[c.requestId] =
                PromiseRace([@ EXCEPT !.resolves = @ + 1], "Request", Fulfilled(v))]

\* ResponseListenerBody calling a resolver for a call that has left the registry
ResponseListenerUnchecked(s, i, v) ==
    IF v.header.requestId \in DOMAIN s.calls
    THEN Resolver(s, i, [requestId |-> v.header.requestId,
                         remoteId |-> s.calls[v.header.requestId].remoteId], v)
    ELSE s

\* the listener the constructor installs on the response event
ResponseListenerBody(s, i, v) ==
    IF v.header.requestId \in DOMAIN s.reg[i]
    THEN Resolver(s, i, s.reg[i][v.header.requestId], v)
    ELSE s

\* ResponderAccepts without the filter on the target
ResponderAcceptsAnyTarget(w, val) ==
    val.header.apiKey = w.api

\* ResponderAccepts without the apiKey filter
ResponderAcceptsAnyApi(w, val) ==
    val.userInfo.remoteId = _selfId(w.inst)

\* the two filters at the head of the closure onFetch() subscribes
ResponderAccepts(w, val) ==
    /\ val.header.apiKey = w.api
    /\ val.userInfo.remoteId = _selfId(w.inst)

\* NoAnswer with the check for false alone
NoAnswerOnlyFalse(resultData) ==
    resultData = "false"

\* if (resultData === false) return; if (!resultData) return;
NoAnswer(resultData) ==
    \/ resultData = "false"
    \/ resultData \in {"undefined", "false", "0", ""}

\* EventFetchResponseData with a fixed apiKey and the requestId left out
EventFetchResponseUnkeyed(w, val, resultData) ==
    [data |-> resultData,
     header |-> [success |-> TRUE, message |-> "", requestId |-> 0, apiKey |-> "X"],
     userInfo |-> [requesterId |-> val.userInfo.requesterId,
                   replayerId |-> _selfId(w.inst)]]

\* EventFetchResponseData sending the request's data back
EventFetchResponseEcho(w, val, resultData) ==
    [data |-> val.data,
     header |-> [success |-> TRUE, message |-> "",
                 requestId |-> val.header.requestId, apiKey |-> w.api],
     userInfo |-> [requesterId |-> val.userInfo.requesterId,
                   replayerId |-> _selfId(w.inst)]]

EventFetchResponseData(w, val, resultData) ==
    [data |-> resultData,
     header |-> [success |-> TRUE, message |-> "",
                 requestId |-> val.header.requestId, apiKey |-> w.api],
     userInfo |-> [requesterId |-> val.userInfo.requesterId,
                   replayerId |-> _selfId(w.inst)]]

EventFetchRequestData(i, requestId, api, params, remoteId) ==
    [data |-> params,
     header |-> [success |-> TRUE, message |-> "",
                 requestId |-> requestId, apiKey |-> api],
     userInfo |-> [requesterId |-> _selfId(i), remoteId |-> remoteId]]

\* History of a call: the closure w of onFetch(api, handler), registered for
\* the call's apiKey on the instance the call addresses, has been handed the
\* request val of the call.
Matched(s, w, val) ==
    IF /\ val.eventTag = RequestEvent
       /\ val.header.requestId \in DOMAIN s.calls
       /\ w.api = s.calls[val.header.requestId].api
       /\ _selfId(w.inst) = s.calls[val.header.requestId].remoteId
    THEN [s EXCEPT !.calls[val.header.requestId].matched = TRUE]
    ELSE s

\* History of a call: a responder has returned the answer resultData to the
\* request val of the call.
Answered(s, val, resultData) ==
    IF val.header.requestId \in DOMAIN s.calls
    THEN [s EXCEPT !.calls[val.header.requestId].answers = Append(@, resultData)]
    ELSE s

\* ------------------------------------------------------------------- emit
\* the synchronous part of the handler of entry e, called with v
HandlerBody(s, n, e, v) ==
    LET i == s.tasks[n].inst IN
    IF e.handler.kind = "response"
    THEN [ResponseListenerBody(s, i, v) EXCEPT !.tasks[n].stage = "returned"]
    ELSE IF e.handler.kind = "onFetch"
    THEN LET s1 == Matched(s, responders[e.handler.id], v) IN
         IF ResponderAccepts(responders[e.handler.id], v)
         THEN [s1 EXCEPT !.tasks[n].stage = "responder"]
         ELSE [s1 EXCEPT !.tasks[n].stage = "returned"]
    ELSE [s EXCEPT !.tasks[n].stage = "handler"]

\* await handler({...data, eventTag: event}) for the entry the iterator yields
Invoke(s, n, e) ==
    LET tk == s.tasks[n]
        v == WithTag(tk.data, tk.event)
        s1 == [s EXCEPT !.tasks[n].pos = @ + 1,
                        !.tasks[n].cur = e,
                        !.tasks[n].log = Append(@,
                            [wild |-> tk.phase = "wild", entry |-> e,
                             tag |-> v.eventTag, ret |-> "none"])]
    IN HandlerBody(s1, n, e, v)

\* emit() returns or throws.  Of the history of a pass that is over, only the
\* invocations of once entries are kept, and whether a failure cut it short.
OnceOnly(r) == r.entry.once

\* the listeners the loops of task tk have yet to reach
Remaining(s, tk) ==
    Len(TaskArr(s, tk)) - tk.pos
        + (IF tk.phase = "key" THEN Len(s.wc[tk.inst]) ELSE 0)

Finish(s, n, phase) ==
    [s EXCEPT !.tasks[n].phase = phase, !.tasks[n].live = FALSE,
              !.tasks[n].cut = phase = "failed" /\ Remaining(s, s.tasks[n]) > 0,
              !.tasks[n].arr = <<>>, !.tasks[n].pos = 0,
              !.tasks[n].cur = NoEntry, !.tasks[n].stage = "idle",
              !.tasks[n].log = SelectSeq(@, OnceOnly),
              !.tasks[n].rev = {}, !.tasks[n].dirty = FALSE, !.tasks[n].snap = {}]

\* for (const {handler, once} of this._wildcard): from the iterator's next()
\* to the next await, or to the end of emit()
WildcardLoop(s, n) ==
    LET tk == s.tasks[n]
        a == TaskArr(s, tk)
    IN IF tk.pos < Len(a) THEN Invoke(s, n, a[tk.pos + 1])
       ELSE Finish(s, n, "done")

\* for (const {handler, once} of handlers), then on to the wildcard loop
KeyLoop(s, n) ==
    LET tk == s.tasks[n]
        a == TaskArr(s, tk)
    IN IF tk.pos < Len(a) THEN Invoke(s, n, a[tk.pos + 1])
       ELSE WildcardLoop([s EXCEPT !.tasks[n].phase = "wild", !.tasks[n].live = TRUE,
                                   !.tasks[n].arr = <<>>, !.tasks[n].pos = 0], n)

Loop(s, n) ==
    IF s.tasks[n].phase = "key" THEN KeyLoop(s, n) ELSE WildcardLoop(s, n)

\* the entries subscribed to event, or to every event, on instance i
Listeners(s, i, event) ==
    {s.wc[i][p] : p \in DOMAIN s.wc[i]}
        \cup (IF event \in DOMAIN s.ev[i]
              THEN {s.ev[i][event][p] : p \in DOMAIN s.ev[i][event]}
              ELSE {})

\* A task: the iterator of the loop it is in (live, arr, pos), the entry whose
\* handler it awaits (cur) and how far that handler is (stage).  History: log,
\* the handlers invoked so far; rev, what was revoked when emit() was called;
\* dirty, whether on() has pushed into the array while the task iterated it;
\* cut, whether the pass failed with listeners still to come; snap, the
\* listeners subscribed when emit() was called.
NewTask(s, i, event, data, origin) ==
    [inst |-> i, event |-> event, data |-> data, origin |-> origin,
     phase |-> IF event \in DOMAIN s.ev[i] THEN "key" ELSE "wild",
     live |-> TRUE, arr |-> <<>>, pos |-> 0,
     cur |-> NoEntry, stage |-> "idle", log |-> <<>>,
     rev |-> s.revoked, dirty |-> FALSE, cut |-> FALSE,
     snap |-> Listeners(s, i, event)]

\* emit with the wildcard loop inside `if (handlers)`
EmitWildcardUnderHandlers(s, i, event, data, origin) ==
    LET n == Len(s.tasks) + 1
        s1 == [s EXCEPT !.tasks = Append(@, NewTask(s, i, event, data, origin))]
    IN IF event \in DOMAIN s.ev[i] THEN Loop(s1, n) ELSE Finish(s1, n, "done")

\* emit(event, data) up to its first await
emit(s, i, event, data, origin) ==
    LET n == Len(s.tasks) + 1
        s1 == [s EXCEPT !.tasks = Append(@, NewTask(s, i, event, data, origin))]
    IN Loop(s1, n)

\* emit() after the awaited handler has fulfilled: once-removal, next iteration
Continue(s, n) ==
    LET tk == s.tasks[n]
        s1 == IF ~tk.cur.once THEN s
              ELSE IF tk.phase = "key" THEN off(s, tk.inst, tk.event, tk.cur.handler)
              ELSE _offAll(s, tk.inst, tk.cur.handler)
    IN Loop([s1 EXCEPT !.tasks[n].cur = NoEntry, !.tasks[n].stage = "idle"], n)

\* the closure of onFetch() after `await handler(val)` gave resultData
ResponderContinue(s, n, resultData) ==
    LET tk == s.tasks[n]
        w == responders[tk.cur.handler.id]
        val == WithTag(tk.data, tk.event)
        s1 == [s EXCEPT !.tasks[n].stage = "returned",
                        !.tasks[n].log[Len(tk.log)].ret = resultData]
    IN IF NoAnswer(resultData) THEN s1
       ELSE emit(Answered(s1, val, resultData), w.inst, ResponseEvent,
                 EventFetchResponseData(w, val, resultData), "onFetch")

TimeoutError == [code |-> "TIMEOUT", message |-> "Request timed out"]

\* Fetch that stores no resolver
FetchUnregistered(s, i, api, params, remoteId) ==
    LET requestId == Len(s.calls) + 1
        c == [inst |-> i, api |-> api, params |-> params, remoteId |-> remoteId,
              timer |-> "armed",
              Request |-> Pending, timeoutPromise |-> Pending, outcome |-> Pending,
              matched |-> FALSE, answers |-> <<>>, resolves |-> 0]
    IN emit([s EXCEPT !.calls = Append(@, c)], i, RequestEvent,
            EventFetchRequestData(i, requestId, api, params, remoteId), "Fetch")

\* Fetch(api, params, remoteId) up to its return.  A call: its arguments, its
\* timer, its two promises and the promise Fetch() returned (outcome).  History:
\* matched and answers (see Matched, Answered), and how often resolve() ran.
Fetch(s, i, api, params, remoteId) ==
    LET requestId == Len(s.calls) + 1
        c == [inst |-> i, api |-> api, params |-> params, remoteId |-> remoteId,
              timer |-> "armed",
              Request |-> Pending, timeoutPromise |-> Pending, outcome |-> Pending,
              matched |-> FALSE, answers |-> <<>>, resolves |-> 0]
        s1 == [s EXCEPT !.calls = Append(@, c),
                        !.reg[i] = [r \in DOMAIN s.reg[i] \cup {requestId} |->
                                       IF r = requestId
                                       THEN [requestId |-> requestId, remoteId |-> remoteId]
                                       ELSE s.reg[i][r]]]
    IN emit(s1, i, RequestEvent,
            EventFetchRequestData(i, requestId, api, params, remoteId), "Fetch")

\* TimeoutCallback leaving the resolver in the registry
TimeoutKeepsResolver(s, r) ==
    [s EXCEPT !.calls[r] = PromiseRace([@ EXCEPT !.timer = "fired"],
                                       "timeoutPromise", Rejected(TimeoutError))]

\* TimeoutCallback that forgets to reject
TimeoutWithoutReject(s, r) ==
    LET i == s.calls[r].inst IN
    [s EXCEPT !.reg[i] = [x \in DOMAIN s.reg[i] \ {r} |-> s.reg[i][x]],
              !.calls[r].timer = "fired"]

\* Throw with the failure caught and the loop going on
ThrowCaught(s, n) == Continue(s, n)

\* `await handler(...)` throws in task n: emit() rejects with the failure
Throw(s, n) == Finish(s, n, "failed")

\* the setTimeout callback of call r
TimeoutCallback(s, r) ==
    LET i == s.calls[r].inst IN
    [s EXCEPT !.reg[i] = [x \in DOMAIN s.reg[i] \ {r} |-> s.reg[i][x]],
              !.calls[r] = PromiseRace([@ EXCEPT !.timer = "fired"],
                                       "timeoutPromise", Rejected(TimeoutError))]

\* new EventEmitter()
NewEventEmitter ==
    [ev |-> [i \in Instances |-> <<>>], wc |-> [i \in Instances |-> <<>>],
     ctr |-> [i \in Instances |-> 0], reg |-> [i \in Instances |-> <<>>],
     calls |-> <<>>, tasks |-> <<>>, revoked |-> {}]

\* new EventFetch(selfId), for every instance
RECURSIVE Construct(_, _)
Construct(s, is) ==
    IF is = {} THEN s
    ELSE LET i == CHOOSE x \in is : TRUE
         IN Construct(on(s, i, {ResponseEvent}, ResponseListener, FALSE, DefaultPriority),
                      is \ {i})

NewEventFetch == Construct(NewEventEmitter, Instances)

\* ---------------------------------------------------------------- actions
Becomes(s) ==
    /\ _events' = s.ev
    /\ _wildcard' = s.wc
    /\ _indexCounter' = s.ctr
    /\ _EventToResponseHandler' = s.reg
    /\ calls' = s.calls
    /\ tasks' = s.tasks
    /\ revoked' = s.revoked

\* History.  The function u that on() returned was called: its handler is
\* revoked on each of its keys, until on() subscribes it there again.  (Kept
\* for the handlers of the callers of on(), not for the closures of onFetch().)
Revocations(u) ==
    IF u.handler.kind # "user" THEN {}
    ELSE {[inst |-> u.inst, key |-> k, handler |-> u.handler] : k \in u.events}

Revokes(s, u) == [s EXCEPT !.revoked = @ \cup Revocations(u)]

\* History.  on(events, handler) of instance i has run: nothing it subscribed
\* is revoked any more, and the tasks iterating an array it pushed into are dirty.
Subscribed(s, i, events, handler) ==
    LET new == Revocations([inst |-> i, events |-> events, handler |-> handler]) IN
    [s EXCEPT !.revoked = @ \ new,
              !.tasks = [n \in DOMAIN s.tasks |->
                  LET tk == s.tasks[n] IN
                  IF ~Running(tk) THEN tk
                  ELSE [tk EXCEPT !.rev = @ \ new,
                                  !.dirty = \/ @
                                            \/ /\ tk.live /\ tk.inst = i
                                               /\ (IF tk.phase = "key" THEN tk.event
                                                   ELSE Wildcard) \in events]]]

UnsubscribeFn(i, events, handler) == [inst |-> i, events |-> events, handler |-> handler]

\* emitter.on(events, handler, {once, priority})
CallOn(i, events, handler, once, priority) ==
    /\ Becomes(Subscribed(on(State, i, events, handler, once, priority),
                           i, events, handler))
    /\ unsubs' = unsubs \cup {UnsubscribeFn(i, events, handler)}
    /\ UNCHANGED responders

\* emitter.off(event, handler) and emitter.off(event)
CallOff(i, event, handler) ==
    /\ Becomes(off(State, i, event, handler))
    /\ UNCHANGED <<responders, unsubs>>

\* calling a function on() or onFetch() returned
CallUnsubscribe(u) ==
    /\ u \in unsubs
    /\ Becomes(Revokes(Unsubscribe(State, u), u))
    /\ UNCHANGED <<responders, unsubs>>

\* emitter.emit(event, data)
CallEmit(i, event, data) ==
    /\ Becomes(emit(State, i, event, data, "user"))
    /\ UNCHANGED <<responders, unsubs>>

\* Awaited without waiting for the promise an onFetch closure returned
AwaitedAnyStage(tk) == tk.stage # "idle"

\* what `await handler(...)` waits for can be there: a subscriber's handler may
\* complete at any time, an onFetch closure completes when it has returned
Awaited(tk) == tk.stage \in {"handler", "returned"}

\* the handler emit() awaits fulfils, and emit() goes on
Resume(n) ==
    /\ Awaited(tasks[n])
    /\ Becomes(Continue(State, n))
    /\ UNCHANGED <<responders, unsubs>>

\* the handler emit() awaits fails (a subscriber, or the responder under an
\* onFetch closure): emit() rejects
HandlerFails(n) ==
    /\ tasks[n].stage \in {"handler", "responder"}
    /\ Becomes(Throw(State, n))
    /\ UNCHANGED <<responders, unsubs>>

\* eventFetch.Fetch(api, params, remoteId)
CallFetch(i, api, params, remoteId) ==
    /\ Becomes(Fetch(State, i, api, params, remoteId))
    /\ UNCHANGED <<responders, unsubs>>

\* eventFetch.onFetch(api, handler)
CallOnFetch(i, api) ==
    /\ LET h == ResponderHandler(Len(responders) + 1) IN
        /\ responders' = Append(responders, [inst |-> i, api |-> api])
        /\ Becomes(Subscribed(on(State, i, {RequestEvent}, h, FALSE, DefaultPriority),
                               i, {RequestEvent}, h))
        /\ unsubs' = unsubs \cup {UnsubscribeFn(i, {RequestEvent}, h)}

\* the responder awaited by an onFetch closure gives resultData
ResponderReturns(n, resultData) ==
    /\ tasks[n].stage = "responder"
    /\ Becomes(ResponderContinue(State, n, resultData))
    /\ UNCHANGED <<responders, unsubs>>

\* the timer of call r fires
Timeout(r) ==
    /\ calls[r].timer = "armed"
    /\ Becomes(TimeoutCallback(State, r))
    /\ UNCHANGED <<responders, unsubs>>

\* ---------------------------------------------------------- specifications
Is(s) ==
    /\ _events = s.ev
    /\ _wildcard = s.wc
    /\ _indexCounter = s.ctr
    /\ _EventToResponseHandler = s.reg
    /\ calls = s.calls
    /\ tasks = s.tasks
    /\ revoked = s.revoked
    /\ responders = <<>>
    /\ unsubs = {}

Subscribable == {{"K1"}, {"K1", "K2"}, {Wildcard}}

\* the options of on(): {} (once = false, priority = 10), {priority: 20}, {once: true}
Options == {[once |-> FALSE, priority |-> DefaultPriority],
            [once |-> FALSE, priority |-> 20],
            [once |-> TRUE, priority |-> DefaultPriority]}

\* the subscriptions the callers of instance i have made
Subscriptions(i, s0) == _indexCounter[i] - s0.ctr[i]

\* the tasks of the given origin
Emitted(origin) == Cardinality({n \in DOMAIN tasks : tasks[n].origin = origin})

\* a plain EventEmitter and its callers
InitBus == Is(NewEventEmitter)

NextBus ==
    \/ \E events \in Subscribable, handler \in UserHandlers, options \in Options :
            /\ Subscriptions("A", NewEventEmitter) < MaxSubscriptions
            /\ CallOn("A", events, handler, options.once, options.priority)
    \/ \E event \in {"K1", Wildcard}, handler \in {NoHandler, CHOOSE h \in UserHandlers : TRUE} :
            CallOff("A", event, handler)
    \/ \E u \in unsubs : CallUnsubscribe(u)
    \/ \E event \in EventKeys :
            /\ Emitted("user") < MaxEmits
            /\ CallEmit("A", event, UserData)
    \/ \E n \in DOMAIN tasks : Resume(n)
    \/ \E n \in DOMAIN tasks : HandlerFails(n)

SpecBus == InitBus /\ [][NextBus]_vars

\* an EventFetch used through Fetch() and onFetch()
Init == Is(NewEventFetch)

Next ==
    \/ \E api \in ApiKeys, params \in Params, remoteId \in Instances :
            /\ Len(calls) < MaxCalls
            /\ CallFetch("A", api, params, remoteId)
    \/ \E api \in ApiKeys :
            /\ Subscriptions("A", NewEventFetch) < MaxSubscriptions
            /\ CallOnFetch("A", api)
    \/ \E u \in unsubs : CallUnsubscribe(u)
    \/ \E n \in DOMAIN tasks, resultData \in Results :
            /\ NoAnswer(resultData) \/ Emitted("onFetch") < MaxResponses
            /\ ResponderReturns(n, resultData)
    \/ \E n \in DOMAIN tasks : Resume(n)
    \/ \E n \in DOMAIN tasks : HandlerFails(n)
    \/ \E r \in DOMAIN calls : Timeout(r)

Spec == Init /\ [][Next]_vars

\* one EventFetch with at most one responder, whose callers may unsubscribe
\* everything from the response event and whose handlers may fail; a timer that
\* was set fires
NextOpen ==
    \/ \E remoteId \in Instances :
            /\ Len(calls) < MaxCalls
            /\ CallFetch("A", "X", "p1", remoteId)
    \/ /\ responders = <<>>
       /\ CallOnFetch("A", "X")
    \/ CallOff("A", ResponseEvent, NoHandler)
    \/ \E u \in unsubs : CallUnsubscribe(u)
    \/ \E n \in DOMAIN tasks, resultData \in Results :
            /\ NoAnswer(resultData) \/ Emitted("onFetch") < MaxResponses
            /\ ResponderReturns(n, resultData)
    \/ \E n \in DOMAIN tasks : Resume(n)
    \/ \E n \in DOMAIN tasks : HandlerFails(n)
    \/ \E r \in DOMAIN calls : Timeout(r)

FairSpec ==
    /\ Init /\ [][NextOpen]_vars
    /\ \A r \in 1..MaxCalls : WF_vars(r \in DOMAIN calls /\ Timeout(r))

\* no emit() is running
Quiet == \A n \in DOMAIN tasks : ~Running(tasks[n])

\* Two EventFetch instances.  The responders are registered before the first
\* Fetch(), every Fetch() addresses an instance that has a responder for its
\* apiKey, a responder answers with the data of the request (req => req.data),
\* and a timeout is long enough for every dispatch to end before it.
NextPair ==
    \/ \E i \in Instances, api \in ApiKeys :
            /\ calls = <<>>
            /\ Subscriptions(i, NewEventFetch) < MaxSubscriptions
            /\ CallOnFetch(i, api)
    \/ \E i \in Instances, api \in ApiKeys, remoteId \in Instances :
            /\ Len(calls) < MaxCalls
            /\ \E x \in DOMAIN responders :
                    responders[x].inst = remoteId /\ responders[x].api = api
            /\ CallFetch(i, api, "p1", remoteId)
    \/ \E n \in DOMAIN tasks :
            /\ Emitted("onFetch") < MaxResponses
            /\ ResponderReturns(n, tasks[n].data.data)
    \/ \E n \in DOMAIN tasks : Resume(n)
    \/ \E r \in DOMAIN calls : Quiet /\ Timeout(r)

SpecPair == Init /\ [][NextPair]_vars

\* a response envelope a caller of emit() makes up
ForgedResponse(requestId, replayerId, requesterId) ==
    [data |-> "r1",
     header |-> [success |-> TRUE, message |-> "", requestId |-> requestId, apiKey |-> "X"],
     userInfo |-> [requesterId |-> requesterId, replayerId |-> replayerId]]

\* an EventFetch without responders, on which the callers of emit() fire
\* response events of their own making
NextForged ==
    \/ \E remoteId \in Instances :
            /\ Len(calls) < MaxCalls
            /\ CallFetch("A", "X", "p1", remoteId)
    \/ \E requestId \in 1..MaxCalls, replayerId \in Instances, requesterId \in Instances :
            /\ Emitted("user") < MaxEmits
            /\ CallEmit("A", ResponseEvent, ForgedResponse(requestId, replayerId, requesterId))
    \/ \E n \in DOMAIN tasks : Resume(n)
    \/ \E r \in DOMAIN calls : Timeout(r)

SpecForged == Init /\ [][NextForged]_vars

\* ------------------------------------------------------------------ claims
KeyRecord(r) == ~r.wild
WildRecord(r) == r.wild
KeyLog(tk) == SelectSeq(tk.log, KeyRecord)
WildLog(tk) == SelectSeq(tk.log, WildRecord)
Entries(log) == [p \in DOMAIN log |-> log[p].entry]

\* the key a task's current loop dispatches under
LoopKey(tk) == IF tk.phase = "key" THEN tk.event ELSE Wildcard

\* a has the higher priority, or the same priority and the earlier subscription
Before(a, b) ==
    \/ a.priority > b.priority
    \/ a.priority = b.priority /\ a.index < b.index

\* C1: an emit() of an event, to whose listener array no on() adds while it
\* runs, invokes the key-specific handlers in strictly descending priority
\* order, and handlers of equal priority in the order they were subscribed.
C1_PriorityOrder ==
    \A n \in DOMAIN tasks :
        LET tk == tasks[n]
            kl == KeyLog(tk)
        IN (Running(tk) /\ ~tk.dirty) =>
              \A x, y \in DOMAIN kl : x < y => Before(kl[x].entry, kl[y].entry)

\* a pass that ran the later subscription first, for its higher priority
C1_Witness ==
    \E n \in DOMAIN tasks :
        LET kl == KeyLog(tasks[n]) IN
        /\ Running(tasks[n]) /\ ~tasks[n].dirty
        /\ Len(kl) = 2
        /\ kl[1].entry.index > kl[2].entry.index
        /\ kl[1].entry.priority > kl[2].entry.priority

\* the invocations, over all emit() calls, of the once entry with index idx
\* under key
OnceInvocations(key, idx) ==
    UNION {{<<n, p>> : p \in {q \in DOMAIN tasks[n].log :
                /\ tasks[n].log[q].entry.once
                /\ tasks[n].log[q].entry.index = idx
                /\ (IF tasks[n].log[q].wild THEN Wildcard ELSE tasks[n].event) = key}}
           : n \in DOMAIN tasks}

\* C2: a handler subscribed with once = true is invoked at most one time across
\* all emit() calls on its event, however those calls interleave.
C2_OnceAtMostOnce ==
    \A key \in EventKeys, i \in Instances :
        \A idx \in 0..(_indexCounter[i] - 1) :
            Cardinality(OnceInvocations(key, idx)) <= 1

\* C3: once the function on() returned has been called, no emit() that starts
\* afterwards invokes the handler under any key it was subscribed to (or as a
\* wildcard listener), until on() subscribes it there again; and calling the
\* function again leaves the listener arrays as they are.
C3_Unsubscribed ==
    /\ [](\A n \in DOMAIN tasks :
            LET tk == tasks[n] IN
            (Running(tk) /\ tk.cur # NoEntry) =>
               [inst |-> tk.inst, key |-> LoopKey(tk), handler |-> tk.cur.handler]
                  \notin tk.rev)
    /\ [][\A u \in unsubs :
            (Revocations(u) \subseteq revoked /\ CallUnsubscribe(u)) =>
               (_events' = _events /\ _wildcard' = _wildcard)]_vars

\* an emit() that started after a handler was unsubscribed from its event runs
\* another handler of that event
C3_Witness ==
    \E n \in DOMAIN tasks, h \in UserHandlers :
        LET tk == tasks[n] IN
        /\ Running(tk) /\ tk.phase = "key" /\ tk.cur # NoEntry
        /\ tk.cur.handler # h
        /\ [inst |-> tk.inst, key |-> tk.event, handler |-> h] \in tk.rev

\* C4: every invocation passes eventTag = the emitted key; within a pass no
\* key-specific handler is invoked after a wildcard handler; and an emit() that
\* returns has invoked every wildcard listener that was subscribed when its
\* wildcard loop began (none, if it returns without a wildcard invocation),
\* whether or not the key has listeners of its own.
C4_Wildcard ==
    /\ [](\A n \in DOMAIN tasks :
            LET tk == tasks[n] IN
            Running(tk) =>
               /\ \A p \in DOMAIN tk.log : tk.log[p].tag = tk.event
               /\ \A p, q \in DOMAIN tk.log : (p < q /\ tk.log[p].wild) => tk.log[q].wild)
    /\ [][\A n \in DOMAIN tasks' :
            tasks'[n].phase = "done" =>
               IF n \notin DOMAIN tasks THEN _wildcard[tasks'[n].inst] = <<>>
               ELSE LET tk == tasks[n] IN
                    /\ tk.phase = "key" => _wildcard[tk.inst] = <<>>
                    /\ (tk.phase = "wild" /\ ~tk.dirty) =>
                          Entries(WildLog(tk)) = TaskArr(State, tk)]_vars

\* a wildcard handler of priority 20 invoked after the key-specific handler of
\* priority 10
C4_Witness ==
    \E n \in DOMAIN tasks :
        LET tk == tasks[n] IN
        /\ tk.phase = "wild" /\ tk.cur # NoEntry /\ ~tk.dirty
        /\ Len(tk.log) = 2
        /\ ~tk.log[1].wild /\ tk.log[2].wild
        /\ tk.log[2].tag = tk.event
        /\ tk.log[1].entry.priority < tk.log[2].entry.priority

DefaultTarget(c) == c.remoteId = _selfId(c.inst)
TimedOut(c) == c.timer = "fired" /\ c.outcome = Rejected(TimeoutError)
StillPending(c) == c.timer = "armed" /\ c.outcome = Pending
RequestTask(n, r) ==
    /\ tasks[n].origin = "Fetch" /\ tasks[n].data.header.requestId = r
ResponseTask(n, r) ==
    /\ tasks[n].origin = "onFetch" /\ tasks[n].data.header.requestId = r

\* C5: with the default target, the moment a responder registered for the
\* call's apiKey returns a truthy value to a pending Fetch, the Fetch is
\* fulfilled with an envelope whose data is that value, whose header.apiKey is
\* the call's apiKey and whose header.requestId is the requestId of the
\* request the responder was handed; a fulfilled Fetch holds the first such
\* answer.
C5_ResponderAnswers ==
    /\ [](\A r \in DOMAIN calls :
            LET c == calls[r] IN
            (DefaultTarget(c) /\ c.outcome.state = "fulfilled") =>
               /\ c.answers # <<>>
               /\ c.outcome.value.data = c.answers[1]
               /\ c.outcome.value.header.apiKey = c.api
               /\ c.outcome.value.header.requestId = r)
    /\ [][\A r \in DOMAIN calls :
            (/\ DefaultTarget(calls[r])
             /\ calls[r].outcome = Pending
             /\ calls'[r].answers # calls[r].answers) =>
               /\ calls'[r].outcome.state = "fulfilled"
               /\ calls'[r].outcome.value.data = calls'[r].answers[Len(calls'[r].answers)]
               /\ calls'[r].outcome.value.header.apiKey = calls[r].api
               /\ calls'[r].outcome.value.header.requestId = r]_vars

\* a Fetch("X", p1) fulfilled with the r1 its responder returned
C5_Witness ==
    \E r \in DOMAIN calls :
        /\ DefaultTarget(calls[r]) /\ calls[r].api = "X"
        /\ calls[r].outcome.state = "fulfilled"
        /\ calls[r].outcome.value.data = "r1"
        /\ calls[r].answers = <<"r1">>

\* C6: a Fetch whose request has reached no responder registered for its
\* apiKey on the instance it addresses is pending with its timer armed, or its
\* timer has fired and it is rejected with {code: "TIMEOUT", message}.
C6_NoResponderTimesOut ==
    \A r \in DOMAIN calls :
        ~calls[r].matched => (StillPending(calls[r]) \/ TimedOut(calls[r]))

\* a Fetch addressed to "B" on instance "A", handed to a responder of its
\* apiKey that let it pass, has timed out
C6_Witness ==
    \E r \in DOMAIN calls, n \in DOMAIN tasks :
        /\ ~calls[r].matched /\ TimedOut(calls[r])
        /\ calls[r].remoteId = "B"
        /\ RequestTask(n, r)
        /\ tasks[n].cur.handler.kind = "onFetch"
        /\ responders[tasks[n].cur.handler.id].api = calls[r].api

\* C7: resolve() runs at most once for a call, the promise Fetch() returned
\* does not change once settled, and a fulfilled Fetch holds an envelope with
\* its own requestId, in answer to its own request; two fulfilled calls hold
\* different envelopes.
C7_ConcurrentCalls ==
    /\ [](\A r \in DOMAIN calls :
            LET c == calls[r] IN
            /\ c.resolves <= 1
            /\ c.outcome.state = "fulfilled" =>
                  /\ c.outcome.value.header.requestId = r
                  /\ c.resolves = 1
                  /\ \E n \in DOMAIN tasks :
                        /\ ResponseTask(n, r)
                        /\ c.outcome.value = WithTag(tasks[n].data, ResponseEvent))
    /\ [][\A r \in DOMAIN calls :
            calls[r].outcome # Pending => calls'[r].outcome = calls[r].outcome]_vars

\* two calls for the same apiKey, both fulfilled, the second answered first
C7_Witness ==
    \E m, n \in DOMAIN tasks :
        /\ Len(calls) = 2 /\ calls[1].api = calls[2].api
        /\ calls[1].outcome.state = "fulfilled" /\ calls[2].outcome.state = "fulfilled"
        /\ ResponseTask(m, 2) /\ ResponseTask(n, 1) /\ m < n

\* C8: an onFetch closure whose responder returns undefined or false emits
\* nothing and touches no call; a Fetch that no responder has answered is
\* pending with its timer armed, or has timed out.
C8_NoAnswer ==
    /\ [](\A r \in DOMAIN calls :
            calls[r].answers = <<>> => (StillPending(calls[r]) \/ TimedOut(calls[r])))
    /\ [][\A n \in DOMAIN tasks :
            (/\ tasks[n].stage = "responder"
             /\ tasks'[n].stage = "returned"
             /\ tasks'[n].log[Len(tasks'[n].log)].ret \in {"undefined", "false"}) =>
               /\ Len(tasks') = Len(tasks)
               /\ calls' = calls
               /\ _EventToResponseHandler' = _EventToResponseHandler]_vars

\* a Fetch whose responder returned false has timed out
C8_Witness ==
    \E r \in DOMAIN calls, n \in DOMAIN tasks :
        /\ calls[r].matched /\ calls[r].answers = <<>> /\ TimedOut(calls[r])
        /\ RequestTask(n, r)
        /\ tasks[n].stage = "returned"
        /\ tasks[n].log[Len(tasks[n].log)].ret = "false"

\* C9: a Fetch leaves Pending for one of Fulfilled and TimedOut and stays
\* there: the timer firing does not change a fulfilled call, resolve() never
\* runs for a call that has timed out, and a call is in the registry only
\* while it is pending.
C9_OneTerminalState ==
    /\ [](\A r \in DOMAIN calls :
            LET c == calls[r] IN
            /\ c.outcome.state = "rejected" =>
                  (TimedOut(c) /\ c.Request = Pending /\ c.resolves = 0)
            /\ c.outcome.state = "fulfilled" => c.Request = c.outcome
            /\ r \in DOMAIN _EventToResponseHandler[c.inst] => c.outcome = Pending)
    /\ [][\A r \in DOMAIN calls :
            /\ calls[r].outcome.state = "fulfilled" => calls'[r].outcome = calls[r].outcome
            /\ calls[r].outcome.state = "rejected" =>
                  /\ calls'[r].outcome = calls[r].outcome
                  /\ calls'[r].Request = Pending]_vars

\* the timer of a fulfilled call has fired, and an answer has come for a call
\* that had timed out
C9_Witness ==
    \E r, q \in DOMAIN calls :
        /\ calls[r].outcome.state = "fulfilled" /\ calls[r].timer = "fired"
        /\ calls[q].outcome.state = "rejected" /\ calls[q].answers # <<>>

\* C10: every Fetch settles, given only that its timer fires.
C10_EveryCallSettles ==
    \A r \in 1..MaxCalls :
        (r \in DOMAIN calls) ~> (r \in DOMAIN calls /\ calls[r].outcome # Pending)

\* a Fetch whose request dispatch was aborted by a failing handler has settled
C10_Witness ==
    \E r \in DOMAIN calls, n \in DOMAIN tasks :
        /\ RequestTask(n, r) /\ tasks[n].phase = "failed"
        /\ calls[r].outcome = Rejected(TimeoutError)

\* C11: a Fetch issued on one instance and addressed to another instance, which
\* has a responder for the apiKey that returns the request's data, is fulfilled
\* with its params as data and the target's id as userInfo.replayerId: once every
\* dispatch has ended and its timer has fired, that is how it has settled.
C11_RemoteCallAnswered ==
    \A r \in DOMAIN calls :
        LET c == calls[r] IN
        (c.inst # c.remoteId /\ c.timer = "fired") =>
            /\ c.outcome.state = "fulfilled"
            /\ c.outcome.value.data = c.params
            /\ c.outcome.value.userInfo.replayerId = c.remoteId

\* C12: when the handler an emit() awaits fails, the promise emit() returned
\* rejects in that step, the step invokes no handler and starts no dispatch,
\* and the pass never invokes a handler afterwards.
C12_FailFast ==
    /\ [][\A n \in DOMAIN tasks :
            HandlerFails(n) =>
               /\ tasks'[n].phase = "failed"
               /\ Len(tasks'[n].log) <= Len(tasks[n].log)
               /\ Len(tasks') = Len(tasks)]_vars
    /\ [][\A n \in DOMAIN tasks :
            tasks[n].phase = "failed" => tasks'[n] = tasks[n]]_vars

\* an emit() that failed with listeners of its pass still to come
C12_Witness ==
    \E n \in DOMAIN tasks : tasks[n].phase = "failed" /\ tasks[n].cut

\* C13: when the dispatch of a Fetch's request has failed in a subscriber of the
\* request event, the promise Fetch() returned is rejected with that failure
\* (and so not pending, fulfilled, or rejected with the TIMEOUT value).
C13_FailureReachesCaller ==
    \A r \in DOMAIN calls, n \in DOMAIN tasks :
        (RequestTask(n, r) /\ tasks[n].phase = "failed") =>
            /\ calls[r].outcome.state = "rejected"
            /\ calls[r].outcome.reason # TimeoutError

\* C14: an emit() is at one handler at a time, the last it invoked; it invokes
\* the next handler, and its promise resolves, only in the step in which the
\* handler it awaits has completed: never while an onFetch closure it awaits is
\* still waiting for its responder.
C14_OneAtATime ==
    /\ [](\A n \in DOMAIN tasks :
            LET tk == tasks[n] IN
            /\ (tk.stage # "idle") = (Running(tk) /\ tk.cur # NoEntry)
            /\ (Running(tk) /\ tk.cur # NoEntry) =>
                  (tk.log # <<>> /\ tk.log[Len(tk.log)].entry = tk.cur))
    /\ [][\A n \in DOMAIN tasks :
            (\/ Len(tasks'[n].log) > Len(tasks[n].log)
             \/ tasks[n].phase # "done" /\ tasks'[n].phase = "done") =>
                /\ tasks[n].stage \in {"handler", "returned"}
                /\ Resume(n)]_vars

\* an emit() that has reached its second listener after the onFetch closure it
\* awaited first had its responder's answer
C14_Witness ==
    \E n \in DOMAIN tasks :
        /\ Running(tasks[n]) /\ Len(tasks[n].log) = 2
        /\ tasks[n].log[1].ret \in Results
        /\ tasks[n].stage = "responder"

\* C15: an emit() that returns has invoked every listener, key-specific or
\* wildcard, that was subscribed when it was called, whatever was unsubscribed
\* while it ran.
C15_SnapshotAtCall ==
    [][\A n \in DOMAIN tasks :
          (Running(tasks[n]) /\ tasks'[n].phase = "done") =>
              \A e \in tasks[n].snap :
                  \E p \in DOMAIN tasks[n].log : tasks[n].log[p].entry = e]_vars

\* the envelope v passes the three checks of the resolver of call r
Passes(v, r) ==
    /\ r \in DOMAIN calls
    /\ v.header.requestId = r
    /\ v.userInfo.replayerId = calls[r].remoteId
    /\ v.userInfo.requesterId = _selfId(calls[r].inst)

\* C16: a fulfilled Fetch holds an envelope that passes the three checks, and
\* becomes fulfilled with the envelope of a response event that was emitted;
\* the emit() of a response event that fails a check for the call it names (or
\* names no call) changes no call's promises or timer and leaves the registry
\* as it is.
C16_ThreeChecks ==
    /\ [](\A r \in DOMAIN calls :
            calls[r].outcome.state = "fulfilled" => Passes(calls[r].outcome.value, r))
    /\ [][\A r \in DOMAIN calls :
            (calls[r].outcome = Pending /\ calls'[r].outcome.state = "fulfilled") =>
                \E n \in DOMAIN tasks' :
                    /\ tasks'[n].event = ResponseEvent
                    /\ calls'[r].outcome.value = WithTag(tasks'[n].data, ResponseEvent)]_vars
    /\ [][(/\ Len(tasks') = Len(tasks) + 1
           /\ tasks'[Len(tasks')].event = ResponseEvent
           /\ ~Passes(tasks'[Len(tasks')].data, tasks'[Len(tasks')].data.header.requestId)) =>
              /\ _EventToResponseHandler' = _EventToResponseHandler
              /\ \A r \in DOMAIN calls :
                    /\ calls'[r].outcome = calls[r].outcome
                    /\ calls'[r].Request = calls[r].Request
                    /\ calls'[r].timer = calls[r].timer]_vars

\* a response naming a pending call with the wrong replier has been dispatched
\* and the call is still pending and in the registry, while another call was
\* fulfilled by a response the caller of emit() made up
C16_Witness ==
    \E r, q \in DOMAIN calls, n, m \in DOMAIN tasks :
        /\ tasks[n].event = ResponseEvent /\ tasks[n].phase = "done"
        /\ tasks[n].data.header.requestId = r
        /\ tasks[n].data.userInfo.replayerId # calls[r].remoteId
        /\ calls[r].outcome = Pending
        /\ r \in DOMAIN _EventToResponseHandler[calls[r].inst]
        /\ tasks[m].origin = "user" /\ tasks[m].data.header.requestId = q
        /\ calls[q].outcome.state = "fulfilled"

\* the request of task tk is for the api and the instance of the responder
\* whose closure the task awaits
ForResponder(tk) ==
    /\ tk.data.header.apiKey = responders[tk.cur.handler.id].api
    /\ tk.data.userInfo.remoteId = _selfId(responders[tk.cur.handler.id].inst)

\* C17: the closure of onFetch(api, handler) calls its handler only for a
\* request whose header.apiKey is api and whose userInfo.remoteId is the
\* instance's selfId; called with any other request it has returned without
\* calling the handler, and a response event is emitted only by a closure whose
\* handler was called.
C17_ResponderFilters ==
    /\ [](\A n \in DOMAIN tasks :
            LET tk == tasks[n] IN
            (Running(tk) /\ tk.cur.handler.kind = "onFetch") =>
                /\ tk.stage = "responder" => ForResponder(tk)
                /\ ~ForResponder(tk) =>
                      (tk.stage = "returned" /\ tk.log[Len(tk.log)].ret = "none"))
    /\ [][(/\ Len(tasks') = Len(tasks) + 1
           /\ tasks'[Len(tasks')].origin = "onFetch") =>
              \E n \in DOMAIN tasks :
                  /\ tasks[n].stage = "responder" /\ tasks'[n].stage = "returned"
                  /\ ForResponder(tasks[n])]_vars

\* a closure of onFetch("Y") called with a request for "X" addressed to its own
\* instance has returned, and a closure called with a request for its api
\* addressed to another instance has returned
C17_Witness ==
    \E n, m \in DOMAIN tasks :
        /\ Running(tasks[n]) /\ tasks[n].cur.handler.kind = "onFetch"
        /\ tasks[n].stage = "returned"
        /\ tasks[n].data.header.apiKey # responders[tasks[n].cur.handler.id].api
        /\ tasks[n].data.userInfo.remoteId = "A"
        /\ Running(tasks[m]) /\ tasks[m].cur.handler.kind = "onFetch"
        /\ tasks[m].stage = "returned"
        /\ tasks[m].data.header.apiKey = responders[tasks[m].cur.handler.id].api
        /\ tasks[m].data.userInfo.remoteId = "B"

\* C18: a response event an onFetch closure emits has the requestId, the apiKey
\* and the requesterId of the request the closure was called with, and the
\* selfId of the closure's instance as replayerId; so every such event carries
\* the identity of the call it answers.
C18_ResponseEnvelope ==
    /\ [][(/\ Len(tasks') = Len(tasks) + 1
           /\ tasks'[Len(tasks')].origin = "onFetch") =>
              \E n \in DOMAIN tasks :
                  LET req == tasks[n].data
                      res == tasks'[Len(tasks')].data
                  IN /\ tasks[n].stage = "responder" /\ tasks'[n].stage = "returned"
                     /\ tasks[n].event = RequestEvent
                     /\ tasks'[Len(tasks')].event = ResponseEvent
                     /\ res.header.requestId = req.header.requestId
                     /\ res.header.apiKey = req.header.apiKey
                     /\ res.userInfo.requesterId = req.userInfo.requesterId
                     /\ res.userInfo.replayerId
                           = _selfId(responders[tasks[n].cur.handler.id].inst)]_vars
    /\ [](\A m \in DOMAIN tasks :
            tasks[m].origin = "onFetch" =>
                LET res == tasks[m].data IN
                /\ res.header.requestId \in DOMAIN calls
                /\ res.header.apiKey = calls[res.header.requestId].api
                /\ res.userInfo.requesterId = _selfId(calls[res.header.requestId].inst)
                /\ res.userInfo.replayerId = calls[res.header.requestId].remoteId)

\* a response event for the second call, which asked for api "Y"
C18_Witness ==
    \E m \in DOMAIN tasks :
        /\ tasks[m].origin = "onFetch" /\ tasks[m].event = ResponseEvent
        /\ tasks[m].data.header.requestId = 2
        /\ tasks[m].data.header.apiKey = "Y"
        /\ tasks[m].data.userInfo.replayerId = "A"

\* arr is in order of priority descending, ties by index ascending
Sorted(arr) == \A x, y \in DOMAIN arr : x < y => Before(arr[x], arr[y])

\* C19: in every reachable state each per-key listener array and each wildcard
\* array is sorted by priority descending, ties by subscription index ascending.
C19_AlwaysSorted ==
    \A i \in Instances :
        /\ Sorted(_wildcard[i])
        /\ \A k \in DOMAIN _events[i] : Sorted(_events[i][k])

\* two listeners of K1 of which the later subscription stands first, and a
\* once listener has been removed by an emit()
C19_Witness ==
    /\ "K1" \in DOMAIN _events["A"]
    /\ Len(_events["A"]["K1"]) = 2
    /\ _events["A"]["K1"][1].index > _events["A"]["K1"][2].index
    /\ \E n \in DOMAIN tasks : tasks[n].phase = "done" /\ tasks[n].log # <<>>

\* call r has an entry in the registry of its instance
Registered(r) == r \in DOMAIN _EventToResponseHandler[calls[r].inst]

\* C20: the registry of an instance holds exactly the requestIds of its pending
\* calls; a call is entered in the step that emits its request; its entry goes
\* in the step that settles it, by its response or by its timer, and is never
\* entered again.
C20_RegistryLifecycle ==
    /\ [](/\ \A r \in DOMAIN calls : Registered(r) <=> calls[r].outcome = Pending
          /\ \A i \in Instances : \A r \in DOMAIN _EventToResponseHandler[i] :
                r \in DOMAIN calls /\ calls[r].inst = i)
    /\ [][\A r \in DOMAIN calls' :
            IF r \notin DOMAIN calls
            THEN /\ r \in DOMAIN _EventToResponseHandler'[calls'[r].inst]
                 /\ \E n \in DOMAIN tasks' : n \notin DOMAIN tasks /\ RequestTask(n, r)'
            ELSE /\ ~Registered(r) => ~Registered(r)'
                 /\ (Registered(r) /\ ~Registered(r)') =>
                       \/ calls'[r].outcome.state = "fulfilled" /\ calls'[r].resolves = 1
                       \/ TimedOut(calls'[r]) /\ calls[r].timer = "armed"]_vars

\* one call has left the registry by its response and one by its timer, and
\* the timer of the first has fired since
C20_Witness ==
    \E r, q \in DOMAIN calls :
        /\ calls[r].outcome.state = "fulfilled" /\ calls[r].timer = "fired"
        /\ TimedOut(calls[q])
        /\ ~Registered(r) /\ ~Registered(q)
        /\ _EventToResponseHandler[calls[r].inst] = <<>>

\* the listener the constructor installed is subscribed to the response event
\* of instance i
Installed(i) ==
    /\ ResponseEvent \in DOMAIN _events[i]
    /\ \E p \in DOMAIN _events[i][ResponseEvent] :
            _events[i][ResponseEvent][p].handler = ResponseListener

\* C21: after any sequence of public operations the response listener of every
\* instance is still installed, and a response event emitted for a call that is
\* in the registry runs the call's resolver.
C21_ListenerStaysInstalled ==
    /\ [](\A i \in Instances : Installed(i))
    /\ [][(/\ Len(tasks') = Len(tasks) + 1
           /\ tasks'[Len(tasks')].event = ResponseEvent
           /\ tasks'[Len(tasks')].data.header.requestId
                 \in DOMAIN _EventToResponseHandler[tasks'[Len(tasks')].inst]) =>
              LET r == tasks'[Len(tasks')].data.header.requestId IN
              calls'[r].resolves = calls[r].resolves + 1]_vars

\* C22: the timer of a fulfilled Fetch is not armed, and does not fire.
C22_TimerCancelled ==
    /\ [](\A r \in DOMAIN calls :
            calls[r].outcome.state = "fulfilled" => calls[r].timer # "armed")
    /\ [][\A r \in DOMAIN calls :
            calls[r].outcome.state = "fulfilled" => calls'[r].timer = calls[r].timer]_vars

\* C23: an emit() invokes no listener entry twice, and when it returns it has
\* invoked every entry that was subscribed when it was called and has stayed
\* subscribed, whatever on() added to the event while it ran.
C23_OncePerPass ==
    /\ [](\A n \in DOMAIN tasks :
            Running(tasks[n]) =>
                \A p, q \in DOMAIN tasks[n].log :
                    p < q => tasks[n].log[p].entry # tasks[n].log[q].entry)
    /\ [][\A n \in DOMAIN tasks :
            (Running(tasks[n]) /\ tasks'[n].phase = "done") =>
                \A e \in tasks[n].snap \cap Listeners(State, tasks[n].inst, tasks[n].event) :
                    \E p \in DOMAIN tasks[n].log : tasks[n].log[p].entry = e]_vars

\* the indices of the subscriptions held in the listener arrays ev (per key) and
\* wc (wildcard) of one instance
Indices(ev, wc) ==
    {wc[p].index : p \in DOMAIN wc}
        \cup UNION {{ev[k][p].index : p \in DOMAIN ev[k]} : k \in DOMAIN ev}

\* C24: a call of the function one on() call returned takes the entries of at
\* most one subscription out of the listener arrays, and the removal of a once
\* entry after its handler ran takes out no entry of another subscription.
C24_OtherSubscriptionsStay ==
    /\ [][\A u \in unsubs :
            CallUnsubscribe(u) =>
                Cardinality(Indices(_events[u.inst], _wildcard[u.inst])
                              \ Indices(_events'[u.inst], _wildcard'[u.inst])) <= 1]_vars
    /\ [][\A n \in DOMAIN tasks :
            (Resume(n) /\ tasks[n].cur.once) =>
                (Indices(_events[tasks[n].inst], _wildcard[tasks[n].inst])
                    \ Indices(_events'[tasks[n].inst], _wildcard'[tasks[n].inst]))
                        \subseteq {tasks[n].cur.index}]_vars

\* the responders task tk has called so far that returned an answer
AnswersIn(tk) == {p \in DOMAIN tk.log : tk.log[p].ret \in Results /\ ~NoAnswer(tk.log[p].ret)}

\* C25: the onFetch closures are called with a request in the order of their
\* subscription, one after the other.  The first of them to return an answer
\* fulfils the Fetch, if it is still pending, with that answer; an answer that
\* comes after another, or after the timeout, changes neither the promises of
\* the call nor the registry.
C25_FirstAnswerWins ==
    [][\A r \in DOMAIN calls :
          Len(calls'[r].answers) > Len(calls[r].answers) =>
              \E n \in DOMAIN tasks :
                  /\ RequestTask(n, r)
                  /\ tasks[n].stage = "responder" /\ tasks'[n].stage = "returned"
                  /\ Sorted(Entries(tasks[n].log))
                  /\ (calls[r].answers = <<>>) = (AnswersIn(tasks[n]) = {})
                  /\ IF calls[r].answers = <<>> /\ calls[r].outcome = Pending
                     THEN /\ calls'[r].outcome.state = "fulfilled"
                          /\ calls'[r].outcome.value.data = calls'[r].answers[1]
                          /\ calls'[r].resolves = 1
                          /\ ~Registered(r)'
                     ELSE /\ calls'[r].outcome = calls[r].outcome
                          /\ calls'[r].Request = calls[r].Request
                          /\ calls'[r].resolves = calls[r].resolves
                          /\ _EventToResponseHandler' = _EventToResponseHandler]_vars

\* two responders have answered one call, which was fulfilled by the first
C25_Witness ==
    \E r \in DOMAIN calls :
        /\ Len(calls[r].answers) = 2
        /\ calls[r].outcome.state = "fulfilled"
        /\ calls[r].resolves = 1
====
